---- MODULE Spec2Model ----
(***************************************************************************)
(* Model of src/app.py: the currency / temperature / calculator service.   *)
(*                                                                         *)
(* Python floats are IEEE-754 binary64 values.  They are modelled exactly: *)
(* a float is a sign, a 53-bit significand and a binary exponent, every    *)
(* arithmetic operation computes the exact result and rounds it to nearest *)
(* (ties to even), and round(x, n) is the correctly rounded decimal        *)
(* rounding CPython performs.  TLC's integers are 32 bits wide, so the     *)
(* significands are kept as little-endian sequences of 15-bit limbs.       *)
(* Infinities, NaNs, subnormals and exponent overflow are outside the      *)
(* model: the inputs are bounded far away from them.                       *)
(***************************************************************************)
EXTENDS Integers, Sequences, FiniteSets, TLC

----------------------------------------------------------------------------
(* Unbounded naturals: little-endian limb sequences, no leading zero limb. *)
(* The carries of a sum are found by looking back over the columns rather  *)
(* than by recursion over the limbs, which keeps every evaluation shallow. *)

Base == 2^15

LimbBits == CHOOSE k \in 1..30 : 2^k = Base

Min(a, b) == IF a < b THEN a ELSE b
Max(a, b) == IF a > b THEN a ELSE b

\* the number of bits of a limb v
IntBitLen(v) == CHOOSE k \in 0..LimbBits : v < 2^k /\ (k = 0 \/ 2^(k - 1) <= v)

\* limb i of a, 0 beyond its length
BLimb(a, i) == IF i >= 1 /\ i <= Len(a) THEN a[i] ELSE 0

\* the index of the highest limb of a that is not 0, 0 when there is none
BTop(a) ==
  CHOOSE k \in 0..Len(a) :
    (k = 0 \/ a[k] # 0) /\ \A j \in (k + 1)..Len(a) : a[j] = 0

BNorm(a) == SubSeq(a, 1, BTop(a))

\* a Python int 0 <= n < 2^31
BFromInt(n) == BNorm(<<n % Base, (n \div Base) % Base, n \div (Base * Base)>>)

BOne == <<1>>

\* the carry into column k of the columns red[j] <= 2 * Base - 2: a lower
\* column overflows and every column between is full
BCarryIn(red, k) ==
  IF \E j \in 1..(k - 1) :
       red[j] >= Base /\ \A m \in (j + 1)..(k - 1) : red[m] = Base - 1
  THEN 1 ELSE 0

\* the number whose limb columns are red[k], the last of them below Base - 1
BCarried(red) ==
  IF red = <<>> THEN <<>>
  ELSE BNorm(SubSeq([k \in 1..Len(red) |-> (red[k] + BCarryIn(red, k)) % Base],
                    1, Len(red)))

BColumns(a, b, n) == SubSeq([i \in 1..n |-> BLimb(a, i) + BLimb(b, i)], 1, n)

BAdd(a, b) == BCarried(BColumns(a, b, Max(Len(a), Len(b)) + 1))

\* the borrow out of the limbs of a - b below limb k
BBorrow(a, b, k) ==
  IF \E j \in 1..(k - 1) :
       a[j] < BLimb(b, j) /\ \A m \in (j + 1)..(k - 1) : a[m] = BLimb(b, m)
  THEN 1 ELSE 0

\* a - b for a >= b
BSub(a, b) ==
  IF a = b THEN <<>>
  ELSE BNorm(SubSeq([k \in 1..Len(a) |->
                       (Base + a[k] - BLimb(b, k) - BBorrow(a, b, k)) % Base],
                    1, Len(a)))

BCmpAt(a, b, i) == IF a[i] > b[i] THEN 1 ELSE -1

\* -1, 0, 1 as a < b, a = b, a > b
BCmp(a, b) ==
  IF Len(a) < Len(b) THEN -1
  ELSE IF Len(a) > Len(b) THEN 1
  ELSE IF a = b THEN 0
  ELSE BCmpAt(a, b, CHOOSE i \in 1..Len(a) :
                      a[i] # b[i] /\ \A j \in (i + 1)..Len(a) : a[j] = b[j])

\* the columns of a * k: the low half of a[i] * k and the high half of
\* a[i-1] * k
BScaled(a, k, n) ==
  SubSeq([i \in 1..n |-> ((BLimb(a, i) * k) % Base)
                         + ((BLimb(a, i - 1) * k) \div Base)], 1, n)

\* a * k for 0 <= k < Base
BMulSmall(a, k) ==
  IF k = 0 \/ a = <<>> THEN <<>> ELSE BCarried(BScaled(a, k, Len(a) + 1))

\* the rows a * b[j] of the schoolbook product
BRows(a, b) == SubSeq([j \in 1..Len(b) |-> BMulSmall(a, b[j])], 1, Len(b))

\* the sum of column k of the rows 1..j, row j shifted up by j - 1 limbs
RECURSIVE BColumnSum(_, _, _)
BColumnSum(rows, k, j) ==
  IF j = 0 THEN 0
  ELSE BLimb(rows[j], k - j + 1) + BColumnSum(rows, k, j - 1)

BSumRows(rows, n) ==
  IF rows = <<>> THEN <<>>
  ELSE BCarried(SubSeq([k \in 1..n |->
                          (BColumnSum(rows, k, Len(rows)) % Base)
                          + (BColumnSum(rows, k - 1, Len(rows)) \div Base)],
                       1, n))

BMul(a, b) ==
  IF a = <<>> \/ b = <<>> THEN <<>>
  ELSE BSumRows(BRows(a, b), Len(a) + Len(b) + 1)

BBitLen(a) ==
  IF a = <<>> THEN 0 ELSE LimbBits * (Len(a) - 1) + IntBitLen(a[Len(a)])

Zeros(n) == [i \in 1..n |-> 0]

\* a * 2^n: the columns of a * 2^(n % LimbBits) hold no carry
BShl(a, n) ==
  IF a = <<>> THEN <<>>
  ELSE Zeros(n \div LimbBits) \o BNorm(BScaled(a, 2^(n % LimbBits), Len(a) + 1))

\* the number of zero limbs at the low end of a > 0
BLowZeros(a) ==
  CHOOSE z \in 0..(Len(a) - 1) : a[z + 1] # 0 /\ \A j \in 1..z : a[j] = 0

\* a / Base^BLowZeros(a)
BStrip(a) == SubSeq(a, BLowZeros(a) + 1, Len(a))

\* floor(a / 2^(LimbBits * w + r)), r < LimbBits
BShrAt(a, w, r) ==
  BNorm(SubSeq([k \in 1..(Len(a) - w) |->
                  (a[k + w] \div 2^r)
                  + ((BLimb(a, k + w + 1) % 2^r) * 2^(LimbBits - r))],
               1, Len(a) - w))

\* floor(a / 2^n)
BShr(a, n) ==
  IF n \div LimbBits >= Len(a) THEN <<>>
  ELSE BShrAt(a, n \div LimbBits, n % LimbBits)

BIsOdd(a) == a # <<>> /\ a[1] % 2 = 1

\* bit i (from 0) of a
BBit(a, i) == (BLimb(a, i \div LimbBits + 1) \div 2^(i % LimbBits)) % 2

\* some bit of a below bit i is set
BLowBits(a, i) ==
  \/ \E j \in 1..(i \div LimbBits) : BLimb(a, j) # 0
  \/ BLimb(a, i \div LimbBits + 1) % 2^(i % LimbBits) # 0

\* limbs L+1 and L of cur as one number
TopTwo(cur, L) == BLimb(cur, L + 1) * Base + BLimb(cur, L)

\* the quotient limb of cur by d put before q, and what is left of cur: the
\* estimate qd >= floor(cur / d) is at most 2 too large when the top limb of
\* d has its high bit set; prod = d * qd
RECURSIVE BDivTry(_, _, _, _, _)
BDivTry(d, q, cur, qd, prod) ==
  IF BCmp(prod, cur) <= 0 THEN [q |-> <<qd>> \o q, r |-> BSub(cur, prod)]
  ELSE BDivTry(d, q, cur, qd - 1, BSub(prod, d))

BDivDigit(d, q, cur, q0) == BDivTry(d, q, cur, q0, BMulSmall(d, q0))

BDivStep(d, q, cur) ==
  IF BCmp(cur, d) < 0 THEN [q |-> <<0>> \o q, r |-> cur]
  ELSE BDivDigit(d, q, cur, Min(TopTwo(cur, Len(d)) \div d[Len(d)], Base - 1))

\* schoolbook long division, one limb of n at a time from the top: dv.q is
\* the quotient so far, dv.r the running remainder, d has its top bit set
RECURSIVE BDivLimbs(_, _, _)
BDivLimbs(n, d, dv) ==
  IF Len(dv.q) > Len(n) - Len(d) THEN dv
  ELSE BDivLimbs(n, d,
         BDivStep(d, dv.q,
                  BNorm(<<n[Len(n) - Len(d) + 1 - Len(dv.q)]>> \o dv.r)))

\* the top Len(d) - 1 limbs of n are below d: they start the remainder
BDivAll(n, d) ==
  IF Len(n) < Len(d) THEN [q |-> <<>>, r |-> n]
  ELSE BDivLimbs(n, d, [q |-> <<>>,
                        r |-> BNorm(SubSeq(n, Len(n) - Len(d) + 2, Len(n)))])

\* quotient and remainder of n by d, both multiplied by 2^s
BDivShifted(dv, s) ==
  IF dv.r = <<>> THEN [q |-> BNorm(dv.q), r |-> <<>>]
  ELSE [q |-> BNorm(dv.q), r |-> BShr(dv.r, s)]

\* long division with both operands shifted left by s bits, which brings
\* the top bit of d to the top of its limb and keeps each digit guess close
BDivBy(n, d, s) == BDivShifted(BDivAll(BShl(n, s), BShl(d, s)), s)

\* the quotient limb of cur = dv.r * Base + (the next limb of a) by k put
\* before q
BShortStep(k, q, cur) == [q |-> <<cur \div k>> \o q, r |-> cur % k]

\* short division of a by the limb k, one limb of a at a time from the top
RECURSIVE BDivShort(_, _, _)
BDivShort(a, k, dv) ==
  IF Len(dv.q) = Len(a) THEN dv
  ELSE BDivShort(a, k, BShortStep(k, dv.q,
                                  dv.r * Base + a[Len(a) - Len(dv.q)]))

BShortDone(dv) == [q |-> BNorm(dv.q), r |-> BFromInt(dv.r)]

\* quotient and remainder of a by k, 0 < k < Base
BDivSmall(a, k) == BShortDone(BDivShort(a, k, [q |-> <<>>, r |-> 0]))

\* quotient and remainder of n by d, d > 0
BDivMod(n, d) ==
  IF Len(d) = 1 THEN BDivSmall(n, d[1])
  ELSE BDivBy(n, d, LimbBits - IntBitLen(d[Len(d)]))

----------------------------------------------------------------------------
(* Python float: (-1)^s * m * 2^e with m = 0 (e = 0) or 2^52 <= m < 2^53.  *)

FZero(s) == [s |-> s, m |-> <<>>, e |-> 0]

FIsZero(a) == a.m = <<>>

\* round half up, a tie (c = 0) to the even neighbour
HalfUp(c, q) == c > 0 \/ (c = 0 /\ BIsOdd(q))

\* a rounded significand q of up to 54 bits brought back to 53
Normalize(s, e, q) ==
  IF BBitLen(q) > 53 THEN [s |-> s, m |-> BShr(q, 1), e |-> e + 1]
  ELSE [s |-> s, m |-> q, e |-> e]

\* q = floor(N / 2^k) rounded to nearest on the k bits shifted out, ties to
\* even: up when the highest of them is set and a lower one or q is odd
RoundShrQ(N, k, q) ==
  IF k > 0 /\ BBit(N, k - 1) = 1 /\ (BLowBits(N, k - 1) \/ BIsOdd(q))
  THEN BAdd(q, BOne) ELSE q

RoundShr(N, k) == RoundShrQ(N, k, BShr(N, k))

\* the float nearest to (-1)^s * N * 2^x for N > 0 of n bits
RoundBinary(s, N, x, n) ==
  IF n <= 53 THEN [s |-> s, m |-> BShl(N, 53 - n), e |-> x - (53 - n)]
  ELSE Normalize(s, x + (n - 53), RoundShr(N, n - 53))

\* the quotient qr.q, of 53 or 54 bits, of a division by den rounded to 53
\* bits: a 54th bit is rounded off with the remainder qr.r below it
RoundQuot(s, e, qr, den) ==
  IF qr.r = <<>> /\ BBitLen(qr.q) <= 53 THEN [s |-> s, m |-> qr.q, e |-> e]
  ELSE IF BBitLen(qr.q) > 53
  THEN IF BIsOdd(qr.q) /\ (qr.r # <<>> \/ BBit(qr.q, 1) = 1)
       THEN Normalize(s, e + 1, BAdd(BShr(qr.q, 1), BOne))
       ELSE Normalize(s, e + 1, BShr(qr.q, 1))
  ELSE IF qr.r # <<>> /\ HalfUp(BCmp(BShl(qr.r, 1), den), qr.q)
  THEN Normalize(s, e, BAdd(qr.q, BOne))
  ELSE Normalize(s, e, qr.q)

\* sh is the shift that brings N / D into [2^52, 2^54)
RoundShifted(s, N, D, x, sh) ==
  IF sh >= 0
  THEN RoundQuot(s, x - sh, BDivMod(BShl(N, sh), D), D)
  ELSE RoundQuot(s, x - sh, BDivMod(N, BShl(D, -sh)), BShl(D, -sh))

\* the float nearest to (-1)^s * (N / D) * 2^x, ties to even (D > 0)
RoundRatio(s, N, D, x) ==
  IF N = <<>> THEN FZero(s)
  ELSE IF D = BOne THEN RoundBinary(s, N, x, BBitLen(N))
  ELSE RoundShifted(s, N, D, x, 53 - (BBitLen(N) - BBitLen(D)))

Abs(n) == IF n < 0 THEN -n ELSE n
SignBit(n) == IF n < 0 THEN 1 ELSE 0

\* the float nearest to the quotient a / b of two integers, b # 0
IntRatio(a, b) ==
  RoundRatio((SignBit(a) + SignBit(b)) % 2, BFromInt(Abs(a)), BFromInt(Abs(b)), 0)

\* float(n) for a Python int n
FromInt(n) == IntRatio(n, 1)

\* the float a decimal literal n * 10^-k parses to
FromDecimal(n, k) == IntRatio(n, 10^k)

FNeg(a) == [a EXCEPT !.s = 1 - a.s]

\* a * b
FMul(a, b) ==
  IF a.m = <<>> \/ b.m = <<>> THEN FZero((a.s + b.s) % 2)
  ELSE RoundRatio((a.s + b.s) % 2, BMul(a.m, b.m), BOne, a.e + b.e)

\* a / b, b # 0
FDiv(a, b) ==
  IF a.m = <<>> THEN FZero((a.s + b.s) % 2)
  ELSE RoundRatio((a.s + b.s) % 2, a.m, BStrip(b.m),
                  a.e - b.e - LimbBits * BLowZeros(b.m))

\* sign and magnitude of (-1)^sa * A + (-1)^sb * B
SumSign(sa, sb, A, B) ==
  IF sa = sb THEN sa
  ELSE IF BCmp(A, B) > 0 THEN sa
  ELSE IF BCmp(A, B) < 0 THEN sb
  ELSE 0

SumMag(sa, sb, A, B) ==
  IF sa = sb THEN BAdd(A, B)
  ELSE IF BCmp(A, B) >= 0 THEN BSub(A, B)
  ELSE BSub(B, A)

FSum(sa, sb, A, B, e0) ==
  RoundRatio(SumSign(sa, sb, A, B), SumMag(sa, sb, A, B), BOne, e0)

\* a + b with both significands brought to the exponent e0
FAddAt(a, b, e0) == FSum(a.s, b.s, BShl(a.m, a.e - e0), BShl(b.m, b.e - e0), e0)

FAdd(a, b) == IF a.e <= b.e THEN FAddAt(a, b, a.e) ELSE FAddAt(a, b, b.e)

FSub(a, b) == FAdd(a, FNeg(b))

\* Python ==: the two zeros are equal
FEq(a, b) == (FIsZero(a) /\ FIsZero(b)) \/ a = b

\* |x| * 10^nd rounded to an integer, ties to even
RoundScaled(x, nd) ==
  IF x.e >= 0 THEN BShl(BMulSmall(x.m, 10^nd), x.e)
  ELSE RoundShr(BMulSmall(x.m, 10^nd), -x.e)

\* round(x, nd) of a float x, 0 <= nd <= 4: the exact binary value of x is
\* rounded to nd decimals (ties to even) and the decimal parsed back
PyRound(x, nd) ==
  IF x.m = <<>> THEN x
  ELSE RoundRatio(x.s, RoundScaled(x, nd), BFromInt(10^nd), 0)

----------------------------------------------------------------------------
(* State.  fallback_rates is the class attribute CurrencyService.           *)
(* fallback_rates, a dict kept here as the sequence of its items in         *)
(* insertion order.  The server (run_simple) takes one request at a time:   *)
(* req is the request it has read and is answering, resp the outcome of    *)
(* the view function or service method that handled it, until it is sent.  *)

VARIABLES fallback_rates, req, resp

vars == <<fallback_rates, req, resp>>

\* the dict literal of CurrencyService.fallback_rates
InitialRates ==
  << [currency |-> "USD", rate |-> FromDecimal(10, 1)],
     [currency |-> "EUR", rate |-> FromDecimal(92, 2)],
     [currency |-> "GBP", rate |-> FromDecimal(78, 2)],
     [currency |-> "JPY", rate |-> FromDecimal(1500, 1)] >>

\* key in dict
HasKey(tbl, key) == \E i \in 1..Len(tbl) : tbl[i].currency = key

\* dict[key], key in dict
Lookup(tbl, key) == tbl[CHOOSE i \in 1..Len(tbl) : tbl[i].currency = key].rate

----------------------------------------------------------------------------
(* Requests.  A JSON key or query argument that is read with .get() and is *)
(* missing is the string None; a number is the decimal literal n * 10^-k.  *)
(* The keys read with data[...] are present, the numbers well formed.      *)

None == "None"

MaxMilli == 15
MaxEighth == 8
MaxQuarterHundred == 4
MaxTemp == 12
MaxInt == 6

CurrencyArgs == {"USD", "EUR", "GBP", "JPY", "usd", "XXX", None}

Decimal(n, k) == [given |-> TRUE, n |-> n, k |-> k]

Missing == [given |-> FALSE, n |-> 0, k |-> 0]

\* thousandths around zero, eighths (exact binary fractions, where the
\* rounding ties are), and whole amounts up to 25 * MaxQuarterHundred
AmountArgs ==
  {Decimal(n, 3) : n \in -MaxMilli..MaxMilli}
  \cup {Decimal(125 * n, 3) : n \in -MaxEighth..MaxEighth}
  \cup {Decimal(25 * n, 0) : n \in 0..MaxQuarterHundred}

UnitArgs == {"C", "F", "K", "c"}

\* temperatures: tenths around zero, and the multiples of 53 up to 53 * MaxTemp
TempArgs ==
  {Decimal(n, 1) : n \in -MaxTemp..MaxTemp}
  \cup {Decimal(53 * n, 0) : n \in -MaxTemp..MaxTemp}

OperationArgs == {"add", "subtract", "multiply", "divide", "bogus", "ADD"}

IntArgs == -MaxInt..MaxInt

Requests ==
  {[endpoint |-> "/"]}
  \cup {[endpoint |-> "/convert", from_currency |-> f, to_currency |-> t, amount |-> a] :
          f \in CurrencyArgs, t \in CurrencyArgs, a \in AmountArgs \cup {Missing}}
  \cup {[endpoint |-> "/rates", base_currency |-> b] : b \in CurrencyArgs}
  \cup {[endpoint |-> "/convert_temp", from_unit |-> f, to_unit |-> t, value |-> v] :
          f \in UnitArgs, t \in UnitArgs, v \in TempArgs}
  \cup {[endpoint |-> "/calculate", operation |-> op, intA |-> a, intB |-> b] :
          op \in OperationArgs, a \in IntArgs, b \in IntArgs}
  \cup {[endpoint |-> "/soap convert_currency", from_currency |-> f,
         to_currency |-> t, amount |-> a] :
          f \in CurrencyArgs \ {None}, t \in CurrencyArgs \ {None}, a \in AmountArgs}
  \cup {[endpoint |-> "/soap get_rates", base_currency |-> b] :
          b \in CurrencyArgs \ {None}}

NoRequest == [endpoint |-> "none"]
NoResponse == [outcome |-> "none"]

\* float(v) of a JSON number
float(v) == FromDecimal(v.n, v.k)

----------------------------------------------------------------------------
(* class CurrencyService *)

\* from_currency not in fallback_rates or to_currency not in fallback_rates
InvalidCurrency(tbl, from_currency, to_currency) ==
  ~HasKey(tbl, from_currency) \/ ~HasKey(tbl, to_currency)

\* mutant: the rate of the target currency alone, the source rate forgotten
ConversionRate_no_from(tbl, from_currency, to_currency) ==
  Lookup(tbl, to_currency)

\* mutant: the ratio the wrong way round
ConversionRate_inverted(tbl, from_currency, to_currency) ==
  FDiv(Lookup(tbl, from_currency), Lookup(tbl, to_currency))

\* rate = fallback_rates[to_currency] / fallback_rates[from_currency]
ConversionRate(tbl, from_currency, to_currency) ==
  FDiv(Lookup(tbl, to_currency), Lookup(tbl, from_currency))

\* mutant: rounded to one decimal
ConvertedAmount_one_decimal(amount, rate) == PyRound(FMul(amount, rate), 1)

\* round(amount * rate, 2)
ConvertedAmount(amount, rate) == PyRound(FMul(amount, rate), 2)

\* mutant: an unknown code converts to 0.0 instead of raising
convert_currency_default_zero(tbl, from_currency, to_currency, amount) ==
  IF InvalidCurrency(tbl, from_currency, to_currency)
  THEN [kind |-> "return", value |-> FZero(0)]
  ELSE CHOOSE returned \in
         {[kind |-> "return", value |-> ConvertedAmount(amount, rate)] :
            rate \in {ConversionRate(tbl, from_currency, to_currency)}} : TRUE

CurrencyService_convert_currency(tbl, from_currency, to_currency, amount) ==
  IF InvalidCurrency(tbl, from_currency, to_currency)
  THEN [kind |-> "raise", error |-> "ValueError",
        message |-> "Invalid currency code."]
  ELSE CHOOSE returned \in
         {[kind |-> "return", value |-> ConvertedAmount(amount, rate)] :
            rate \in {ConversionRate(tbl, from_currency, to_currency)}} : TRUE

\* mutant: the table's rate, not divided by the base rate
RelativeRate_no_base(rate, base) == PyRound(rate, 3)

\* round(rate / base, 3)
RelativeRate(rate, base) == PyRound(FDiv(rate, base), 3)

\* mutant: the items in reverse order
get_rates_reversed(tbl, base_currency) ==
  IF ~HasKey(tbl, base_currency)
  THEN [kind |-> "raise", error |-> "ValueError",
        message |-> "Invalid base currency", yielded |-> <<>>]
  ELSE [kind |-> "return",
        yielded |-> [i \in 1..Len(tbl) |->
                       [currency |-> tbl[Len(tbl) + 1 - i].currency,
                        rate |-> RelativeRate(tbl[Len(tbl) + 1 - i].rate,
                                              Lookup(tbl, base_currency))]]]

\* the generator run to its end: what it yielded and how it ended
CurrencyService_get_rates(tbl, base_currency) ==
  IF ~HasKey(tbl, base_currency)
  THEN [kind |-> "raise", error |-> "ValueError",
        message |-> "Invalid base currency", yielded |-> <<>>]
  ELSE [kind |-> "return",
        yielded |-> [i \in 1..Len(tbl) |->
                       [currency |-> tbl[i].currency,
                        rate |-> RelativeRate(tbl[i].rate,
                                              Lookup(tbl, base_currency))]]]

----------------------------------------------------------------------------
(* The server loop: a request is read, handled, and its response sent.     *)

receive ==
  /\ req = NoRequest
  /\ req' \in Requests
  /\ UNCHANGED <<fallback_rates, resp>>

send ==
  /\ resp # NoResponse
  /\ req' = NoRequest
  /\ resp' = NoResponse
  /\ UNCHANGED fallback_rates

Handling(endpoint) == req.endpoint = endpoint /\ resp = NoResponse

----------------------------------------------------------------------------
(* The two operations called through the SOAP application: the outcome of  *)
(* the service method is what the protocol layer is handed.                *)

rpc_convert_currency ==
  /\ Handling("/soap convert_currency")
  /\ \E amount \in {float(req.amount)} :
       resp' = [outcome |-> "rpc",
                result |-> CurrencyService_convert_currency(
                             fallback_rates, req.from_currency, req.to_currency,
                             amount)]
  /\ UNCHANGED <<fallback_rates, req>>

rpc_get_rates ==
  /\ Handling("/soap get_rates")
  /\ resp' = [outcome |-> "rpc",
              result |-> CurrencyService_get_rates(fallback_rates, req.base_currency)]
  /\ UNCHANGED <<fallback_rates, req>>

----------------------------------------------------------------------------
(* REST API.  An exception that leaves a view function is an unhandled     *)
(* fault; jsonify(...) is status 200, jsonify(...), 400 is status 400.     *)

Unhandled(raised) ==
  [outcome |-> "unhandled", error |-> raised.error, message |-> raised.message]

Json(status, body) == [outcome |-> "json", status |-> status, body |-> body]

home ==
  /\ Handling("/")
  /\ resp' = [outcome |-> "html", template |-> "index.html"]
  /\ UNCHANGED <<fallback_rates, req>>

\* data.get('amount', 1.0)
GetAmount(a) == IF a.given THEN a ELSE Decimal(10, 1)

\* mutant: the rate of the conversion is stored back into the rate table
convert_stores_rate ==
  /\ Handling("/convert")
  /\ \E from_currency \in {req.from_currency}, to_currency \in {req.to_currency},
        amount \in {float(GetAmount(req.amount))} :
       \E result \in {CurrencyService_convert_currency(
                        fallback_rates, from_currency, to_currency, amount)} :
         /\ resp' = IF result.kind = "raise"
                    THEN Unhandled(result)
                    ELSE Json(200, [from_currency |-> from_currency,
                                    to_currency |-> to_currency,
                                    amount |-> amount, result |-> result.value])
         /\ fallback_rates' =
              IF result.kind = "raise" THEN fallback_rates
              ELSE [i \in 1..Len(fallback_rates) |->
                      IF fallback_rates[i].currency = to_currency
                      THEN [fallback_rates[i] EXCEPT !.rate =
                              ConversionRate(fallback_rates, from_currency, to_currency)]
                      ELSE fallback_rates[i]]
  /\ UNCHANGED req

convert ==
  /\ Handling("/convert")
  /\ \E from_currency \in {req.from_currency}, to_currency \in {req.to_currency},
        amount \in {float(GetAmount(req.amount))} :
       \E result \in {CurrencyService_convert_currency(
                        fallback_rates, from_currency, to_currency, amount)} :
         resp' = IF result.kind = "raise"
                 THEN Unhandled(result)
                 ELSE Json(200, [from_currency |-> from_currency,
                                 to_currency |-> to_currency,
                                 amount |-> amount, result |-> result.value])
  /\ UNCHANGED <<fallback_rates, req>>

\* {r.currency: r.rate for r in rates}: a later item replaces an earlier one
DictOf(rates) ==
  [c \in {rates[i].currency : i \in 1..Len(rates)} |->
     rates[CHOOSE i \in 1..Len(rates) :
             /\ rates[i].currency = c
             /\ \A j \in 1..Len(rates) : rates[j].currency = c => j <= i].rate]

\* request.args.get('base_currency', 'USD')
GetBase(b) == IF b = None THEN "USD" ELSE b

\* mutant: the ValueError is caught and answered with a 400 error body
get_rates_error_body ==
  /\ Handling("/rates")
  /\ \E base \in {GetBase(req.base_currency)} :
       \E gen \in {CurrencyService_get_rates(fallback_rates, base)} :
         resp' = IF gen.kind = "raise"
                 THEN Json(400, [error |-> gen.message])
                 ELSE Json(200, [base_currency |-> base, rates |-> DictOf(gen.yielded)])
  /\ UNCHANGED <<fallback_rates, req>>

get_rates ==
  /\ Handling("/rates")
  /\ \E base \in {GetBase(req.base_currency)} :
       \E gen \in {CurrencyService_get_rates(fallback_rates, base)} :
         resp' = IF gen.kind = "raise"
                 THEN Unhandled(gen)
                 ELSE Json(200, [base_currency |-> base, rates |-> DictOf(gen.yielded)])
  /\ UNCHANGED <<fallback_rates, req>>

\* mutant: identical units convert to the value itself
convert_temp_identity ==
  /\ Handling("/convert_temp")
  /\ resp' = IF req.from_unit = req.to_unit
             THEN Json(200, [from_unit |-> req.from_unit, to_unit |-> req.to_unit,
                             value |-> float(req.value),
                             result |-> PyRound(float(req.value), 2)])
             ELSE Json(400, [error |-> "Invalid conversion units"])
  /\ UNCHANGED <<fallback_rates, req>>

convert_temp ==
  /\ Handling("/convert_temp")
  /\ LET from_unit == req.from_unit
         to_unit   == req.to_unit
         value     == float(req.value)
         c_to_f    == FAdd(FDiv(FMul(value, FromInt(9)), FromInt(5)), FromInt(32))
         f_to_c    == FDiv(FMul(FSub(value, FromInt(32)), FromInt(5)), FromInt(9))
         ok(result) == Json(200, [from_unit |-> from_unit, to_unit |-> to_unit,
                                  value |-> value, result |-> PyRound(result, 2)])
     IN  resp' = IF from_unit = "C" /\ to_unit = "F" THEN ok(c_to_f)
                 ELSE IF from_unit = "F" /\ to_unit = "C" THEN ok(f_to_c)
                 ELSE Json(400, [error |-> "Invalid conversion units"])
  /\ UNCHANGED <<fallback_rates, req>>

IntResult(n) == [type |-> "int", int |-> n]
FloatResult(x) == [type |-> "float", float |-> x]
StrResult(str) == [type |-> "str", str |-> str]

\* mutant: the quotient truncated to an integer
TrueDiv_truncated(a, b) ==
  FromInt((IF (a < 0) = (b < 0) THEN 1 ELSE -1) * (Abs(a) \div Abs(b)))

\* a / b of two Python ints, b # 0: the float nearest the exact quotient
TrueDiv(a, b) == IntRatio(a, b)

calculate ==
  /\ Handling("/calculate")
  /\ LET op == req.operation
         a  == req.intA
         b  == req.intB
         ok(result) == Json(200, [operation |-> op, intA |-> a, intB |-> b,
                                  result |-> result])
     IN  resp' = IF op = "add" THEN ok(IntResult(a + b))
                 ELSE IF op = "subtract" THEN ok(IntResult(a - b))
                 ELSE IF op = "multiply" THEN ok(IntResult(a * b))
                 ELSE IF op = "divide"
                 THEN ok(IF b # 0 THEN FloatResult(TrueDiv(a, b))
                         ELSE StrResult("Infinity"))
                 ELSE Json(400, [error |-> "Invalid operation"])
  /\ UNCHANGED <<fallback_rates, req>>

----------------------------------------------------------------------------

Init ==
  /\ fallback_rates = InitialRates
  /\ req = NoRequest
  /\ resp = NoResponse

Next ==
  \/ receive
  \/ home
  \/ convert
  \/ get_rates
  \/ convert_temp
  \/ calculate
  \/ rpc_convert_currency
  \/ rpc_get_rates
  \/ send

Spec == Init /\ [][Next]_vars

----------------------------------------------------------------------------
(* Vocabulary of the properties.                                           *)

\* the request read last has been handled and its response not yet sent
Done(endpoint) == req.endpoint = endpoint /\ resp # NoResponse

\* a call of convert_currency, through either surface, returned or raised
ConvertReturned ==
  \/ Done("/soap convert_currency") /\ resp.result.kind = "return"
  \/ Done("/convert") /\ resp.outcome = "json"

ConvertRaised ==
  \/ Done("/soap convert_currency") /\ resp.result.kind = "raise"
  \/ Done("/convert") /\ resp.outcome = "unhandled"

ConvertCalled == Done("/soap convert_currency") \/ Done("/convert")

\* what it returned, and the amount it was called with
ConvertValue ==
  IF req.endpoint = "/convert" THEN resp.body.result ELSE resp.result.value

ConvertAmount == float(GetAmount(req.amount))

\* the currency codes and rates the specification lists, in hundredths
Codes == {"USD", "EUR", "GBP", "JPY"}

Hundredths == [c \in Codes |-> CASE c = "USD" -> 100 [] c = "EUR" -> 92
                                 [] c = "GBP" -> 78 [] c = "JPY" -> 15000]

\* a decimal n * 10^-k with at most nd decimal places
AtMostDecimals(v, nd) == (v.n * 10^nd) % 10^v.k = 0

FAbs(a) == [a EXCEPT !.s = 0]

FNotPositive(a) == FIsZero(a) \/ a.s = 1

\* Python a <= b
FLe(a, b) == FNotPositive(FSub(a, b))

FIsNumber(a) == a.s \in {0, 1} /\ (FIsZero(a) \/ BBitLen(a.m) = 53)

BAbsDiff(a, b) == IF BCmp(a, b) >= 0 THEN BSub(a, b) ELSE BSub(b, a)

\* q is the float nearest to a / b (b # 0): right sign, and within half a
\* unit in the last place of the exact quotient
IsTrueQuotient(q, a, b) ==
  IF a = 0 THEN FIsZero(q)
  ELSE /\ FIsNumber(q) /\ ~FIsZero(q) /\ q.e < 0
       /\ q.s = (SignBit(a) + SignBit(b)) % 2
       /\ BCmp(BMulSmall(BAbsDiff(BMulSmall(q.m, Abs(b)),
                                  BShl(BFromInt(Abs(a)), -q.e)), 2),
               BFromInt(Abs(b))) <= 0

\* x is the float written with nd decimals that lies within half a unit of
\* the last decimal of sign * num / den (num, den naturals as limbs)
IsRounding(x, nd, sign, num, den) ==
  /\ x = PyRound(x, nd)
  /\ (FIsZero(x) \/ x.s = sign)
  /\ BCmp(BMulSmall(BAbsDiff(BMul(RoundScaled(x, nd), den),
                             BMulSmall(num, 10^nd)), 2),
          den) <= 0

----------------------------------------------------------------------------
(* C1 *)

\* C1 as stated: for every currency code X of the rate table and every
\* amount, convert_currency(X, X, amount) returns exactly amount.
C1_IdentityAnyAmount ==
  (ConvertCalled /\ req.from_currency \in Codes
     /\ req.to_currency = req.from_currency)
  => (ConvertReturned /\ FEq(ConvertValue, ConvertAmount))

\* C1 amended: for every currency code X of the rate table and every amount
\* with at most two decimal places, convert_currency(X, X, amount) returns
\* exactly amount (any other amount comes back rounded to two decimals).
C1_IdentityTwoDecimals ==
  (ConvertCalled /\ req.from_currency \in Codes
     /\ req.to_currency = req.from_currency)
  => /\ ConvertReturned
     /\ AtMostDecimals(GetAmount(req.amount), 2) => FEq(ConvertValue, ConvertAmount)
     /\ ConvertValue = PyRound(ConvertAmount, 2)

C1_Witness ==
  /\ Done("/soap convert_currency")
  /\ req.from_currency = "EUR" /\ req.to_currency = "EUR"
  /\ req.amount = Decimal(10, 3)
  /\ resp.result.kind = "return"
  /\ resp.result.value = FromDecimal(1, 2)

----------------------------------------------------------------------------
(* C2 *)

\* convert_currency(B, A, 1) for the call convert_currency(A, B, amt) made
ConvertBack ==
  CurrencyService_convert_currency(
    fallback_rates, req.to_currency, req.from_currency, FromInt(1)).value

\* |convert_currency(A, B, amt) * back - amt|
RoundTripError(back) == FAbs(FSub(FMul(ConvertValue, back), ConvertAmount))

\* 0.005 * (|convert_currency(A, B, amt)| + back) + 0.01
RoundTripBound(back) ==
  FAdd(FMul(FromDecimal(5, 3), FAdd(FAbs(ConvertValue), back)),
       FromDecimal(1, 2))

\* C2 as stated: for every pair of currency codes A, B of the rate table and
\* every amount amt, convert_currency(A, B, amt) * convert_currency(B, A, 1)
\* equals amt within the 2-decimal rounding step, 0.01.
C2_RoundTripWithinStep ==
  ConvertReturned =>
    \A back \in {ConvertBack} : FLe(RoundTripError(back), FromDecimal(1, 2))

\* C2 amended: the round trip equals amt within the tolerance the two
\* roundings leave, which grows with the operands:
\* |convert_currency(A, B, amt) * convert_currency(B, A, 1) - amt|
\*   <= 0.005 * (|convert_currency(A, B, amt)| + convert_currency(B, A, 1)) + 0.01.
C2_RoundTripWithinPropagated ==
  ConvertReturned =>
    \A back \in {ConvertBack} : FLe(RoundTripError(back), RoundTripBound(back))

\* 100 USD -> 15000.0 JPY, 1 JPY -> 0.01 USD: the product is 150, not 100
C2_Witness ==
  /\ Done("/soap convert_currency")
  /\ req.from_currency = "USD" /\ req.to_currency = "JPY"
  /\ req.amount = Decimal(100, 0)
  /\ resp.result.kind = "return"
  /\ resp.result.value = FromInt(15000)
  /\ ConvertBack = FromDecimal(1, 2)

----------------------------------------------------------------------------
(* C3 *)

\* C3: for every base currency that is a key of the rate table, the sequence
\* get_rates(base) produces contains an entry whose currency is base and whose
\* rate is 1.000 (and so does the rates object of GET /rates).
C3_BaseRateIsOne ==
  /\ (Done("/soap get_rates") /\ req.base_currency \in Codes)
     => /\ resp.result.kind = "return"
        /\ \E i \in 1..Len(resp.result.yielded) :
             /\ resp.result.yielded[i].currency = req.base_currency
             /\ FEq(resp.result.yielded[i].rate, FromDecimal(1000, 3))
  /\ (Done("/rates") /\ req.base_currency \in Codes)
     => /\ resp.outcome = "json"
        /\ req.base_currency \in DOMAIN resp.body.rates
        /\ FEq(resp.body.rates[req.base_currency], FromDecimal(1000, 3))

C3_Witness ==
  /\ Done("/soap get_rates")
  /\ req.base_currency = "GBP"
  /\ resp.result.kind = "return"
  /\ resp.result.yielded[3] = [currency |-> "GBP", rate |-> FromInt(1)]

----------------------------------------------------------------------------
(* C4 *)

Operations == {"add", "subtract", "multiply", "divide"}

\* C4: calculate ends in the 400 error {error: "Invalid operation"} if and
\* only if the operation is not one of add, subtract, multiply, divide;
\* divide by zero is a success whose result is the string "Infinity", and
\* divide by a non-zero divisor returns the true quotient.
C4_CalculateErrors ==
  Done("/calculate") =>
    /\ resp.outcome = "json"
    /\ (resp.status = 400) <=> (req.operation \notin Operations)
    /\ resp.status = 400 => resp.body = [error |-> "Invalid operation"]
    /\ resp.status # 400 => resp.status = 200
    /\ (req.operation = "divide" /\ req.intB = 0)
       => resp.body.result = [type |-> "str", str |-> "Infinity"]
    /\ (req.operation = "divide" /\ req.intB # 0)
       => /\ resp.body.result.type = "float"
          /\ IsTrueQuotient(resp.body.result.float, req.intA, req.intB)

C4_Witness ==
  /\ Done("/calculate")
  /\ req.operation = "divide" /\ req.intA = -3 /\ req.intB = 0
  /\ resp.status = 200
  /\ resp.body.result.str = "Infinity"

----------------------------------------------------------------------------
(* C5 *)

\* C5: convert_currency(from, to, amount) fails with the invalid-currency
\* error, and returns no result, if and only if from or to is not a key of
\* the rate table under case-sensitive exact match; when both are keys it
\* returns a number.
C5_InvalidCurrency ==
  ConvertCalled =>
    /\ ConvertRaised <=> (req.from_currency \notin Codes \/ req.to_currency \notin Codes)
    /\ ConvertRaised <=> ~ConvertReturned
    /\ Done("/soap convert_currency") /\ ConvertRaised
       => resp.result = [kind |-> "raise", error |-> "ValueError",
                         message |-> "Invalid currency code."]
    /\ Done("/convert") /\ ConvertRaised
       => resp = [outcome |-> "unhandled", error |-> "ValueError",
                  message |-> "Invalid currency code."]
    /\ ConvertReturned => FIsNumber(ConvertValue)

C5_Witness ==
  /\ Done("/soap convert_currency")
  /\ req.from_currency = "usd" /\ req.to_currency = "EUR"
  /\ resp.result.kind = "raise"

----------------------------------------------------------------------------
(* C6 *)

\* C6: convert_temp returns the 400 error {error: "Invalid conversion units"}
\* for every (from_unit, to_unit) other than (C, F) and (F, C), identical and
\* unknown units included, and no result; for (C, F) and (F, C) it returns a
\* result and not the error.
C6_TempUnits ==
  Done("/convert_temp") =>
    /\ resp.outcome = "json"
    /\ IF <<req.from_unit, req.to_unit>> \in {<<"C", "F">>, <<"F", "C">>}
       THEN /\ resp.status = 200
            /\ DOMAIN resp.body = {"from_unit", "to_unit", "value", "result"}
            /\ FIsNumber(resp.body.result)
       ELSE /\ resp.status = 400
            /\ resp.body = [error |-> "Invalid conversion units"]

C6_Witness ==
  /\ Done("/convert_temp")
  /\ req.from_unit = "C" /\ req.to_unit = "C"
  /\ resp.status = 400

----------------------------------------------------------------------------
(* C7 *)

\* C7: an unknown currency code ends both HTTP endpoints the same way, in an
\* unhandled fault propagated from the service: neither a 400 error body nor
\* a success body, and get_rates yields no rate entry before it fails.
C7_UnknownCurrencyUnhandled ==
  /\ (Done("/convert")
        /\ (req.from_currency \notin Codes \/ req.to_currency \notin Codes))
     => /\ resp.outcome = "unhandled" /\ resp.error = "ValueError"
        /\ "body" \notin DOMAIN resp
  /\ (Done("/rates") /\ req.base_currency \notin Codes \cup {None})
     => /\ resp.outcome = "unhandled" /\ resp.error = "ValueError"
        /\ "body" \notin DOMAIN resp
  /\ (Done("/soap get_rates") /\ req.base_currency \notin Codes)
     => /\ resp.result.kind = "raise"
        /\ resp.result.yielded = <<>>

C7_Witness ==
  /\ Done("/rates")
  /\ req.base_currency = "XXX"
  /\ resp.outcome = "unhandled"
  /\ resp.message = "Invalid base currency"

----------------------------------------------------------------------------
(* C8 *)

FIsPositive(a) == a.s = 0 /\ ~FIsZero(a)

\* C8: after any sequence of requests, successful or failing, the rate table
\* holds exactly its startup contents (USD 1.0, EUR 0.92, GBP 0.78,
\* JPY 150.0) and every value in it is greater than 0.
C8_RateTableReadOnly ==
  /\ {fallback_rates[i].currency : i \in 1..Len(fallback_rates)} = Codes
  /\ Len(fallback_rates) = Cardinality(Codes)
  /\ \A i \in 1..Len(fallback_rates) :
       /\ IsTrueQuotient(fallback_rates[i].rate,
                         Hundredths[fallback_rates[i].currency], 100)
       /\ FIsPositive(fallback_rates[i].rate)

\* a failing request has been handled
C8_Witness ==
  /\ Done("/convert")
  /\ resp.outcome = "unhandled"
  /\ C8_RateTableReadOnly

----------------------------------------------------------------------------
(* C9 *)

\* C9: for every pair of currency codes from, to of the rate table and every
\* amount, convert_currency returns amount * table[to] / table[from] rounded
\* to 2 decimal places, POST /convert answers with that value as result and
\* with the from_currency, to_currency and amount it was given, and 100 USD
\* is 92.0 EUR.
C9_ConvertValue ==
  /\ ConvertReturned =>
       IsRounding(ConvertValue, 2, SignBit(GetAmount(req.amount).n),
                  BMulSmall(BFromInt(Abs(GetAmount(req.amount).n)),
                            Hundredths[req.to_currency]),
                  BMulSmall(BFromInt(10^GetAmount(req.amount).k),
                            Hundredths[req.from_currency]))
  /\ (Done("/convert") /\ resp.outcome = "json") =>
       /\ resp.status = 200
       /\ resp.body.from_currency = req.from_currency
       /\ resp.body.to_currency = req.to_currency
       /\ resp.body.amount = ConvertAmount
  /\ (ConvertCalled /\ req.from_currency = "USD" /\ req.to_currency = "EUR"
        /\ req.amount = Decimal(100, 0))
     => ConvertReturned /\ ConvertValue = FromDecimal(920, 1)

C9_Witness ==
  /\ Done("/convert")
  /\ req.from_currency = "USD" /\ req.to_currency = "EUR"
  /\ req.amount = Decimal(100, 0)
  /\ resp.outcome = "json"
  /\ resp.body.result = FromInt(92)

----------------------------------------------------------------------------
(* C10 *)

TableOrder == <<"USD", "EUR", "GBP", "JPY">>

\* C10: for every base currency of the rate table, get_rates(base) produces
\* exactly one Rate per currency of the table, in the table's insertion order
\* (USD, EUR, GBP, JPY), each with rate = table[currency] / table[base]
\* rounded to 3 decimal places; with base EUR the JPY entry is
\* round(150.0 / 0.92, 3) = 163.043.
C10_RatesSequence ==
  (Done("/soap get_rates") /\ req.base_currency \in Codes) =>
    /\ resp.result.kind = "return"
    /\ Len(resp.result.yielded) = Len(TableOrder)
    /\ \A i \in 1..Len(TableOrder) :
         /\ resp.result.yielded[i].currency = TableOrder[i]
         /\ IsRounding(resp.result.yielded[i].rate, 3, 0,
                       BFromInt(Hundredths[TableOrder[i]]),
                       BFromInt(Hundredths[req.base_currency]))
    /\ req.base_currency = "EUR"
       => resp.result.yielded[4].rate = FromDecimal(163043, 3)

C10_Witness ==
  /\ Done("/soap get_rates")
  /\ req.base_currency = "EUR"
  /\ resp.result.kind = "return"
  /\ resp.result.yielded[4] = [currency |-> "JPY", rate |-> FromDecimal(163043, 3)]
  /\ resp.result.yielded[1].currency = "USD"

====
